---- MODULE Spec2Model ----
(***************************************************************************)
(* Model of pypdfdeck:                                                     *)
(*   - src/rasterizer.py: _rasterize_worker and ThreadedRasterizer (the    *)
(*     resize-aware rasterization worker and its facade);                  *)
(*   - src/pdfpc.py: Repeater and Cursor (the repeat timer and the cursor  *)
(*     controller).                                                        *)
(* The two subsystems share no state; each has its own specification       *)
(* (Spec for the rasterizer, CursorSpec for the cursor).  PairSpec runs    *)
(* two Repeaters side by side, each held continuously.                     *)
(*                                                                         *)
(* Modelling conventions                                                   *)
(*   - Python None for an image is NoImg, for the facade's image list the  *)
(*     empty sequence NoneList (a real list has pagelimit >= 1 entries),   *)
(*     for a queue item (the stop sentinel) NoneItem.                      *)
(*   - A rendered image is the record of the raster arguments it was       *)
(*     rendered with and the page it shows.                                *)
(*   - multiprocessing.Queue is a FIFO channel; get(timeout) raises Empty  *)
(*     only when the channel is empty.                                     *)
(*   - Time is counted in units of 0.05 s (the interval pdfpc.py schedules *)
(*     on_tick with), in exact arithmetic; the code uses binary floating   *)
(*     point.                                                              *)
(*   - PairSpec keeps the rounding of the code's floating-point sums and   *)
(*     differences: numbers are multiples of 2^-GridBits s and every       *)
(*     result is rounded to the nearest number of Precision significant    *)
(*     bits, ties to even (Python floats have 53; 13 rounds 0.4 and 0.1    *)
(*     the way 53 does, their binary expansion having period 4).           *)
(***************************************************************************)
EXTENDS Integers, Sequences, FiniteSets, TLC

VARIABLES
    \* ---- rasterizer: configuration (arguments and document) ----
    pagelimit,      \* _rasterize_worker argument
    docpages,       \* number of pages of the PDF file
    aspect,         \* <<w, h>>: page aspect ratio w / h of the document
    \* ---- rasterizer: channel and worker locals ----
    queue,          \* ThreadedRasterizer.queue contents, oldest first
    wpc,            \* position of the worker thread
    page,           \* worker local `page`
    image_size,     \* worker local `image_size`
    images,         \* worker local `images`
    images2,        \* worker local `images2` (the callback argument)
    \* ---- rasterizer: facade ----
    fimages,        \* ThreadedRasterizer.images
    black,          \* ThreadedRasterizer.black
    lock,           \* ThreadedRasterizer.lock: "free", "worker" or "owner"
    opc,            \* position of the owning (rendering) thread
    gidx,           \* argument of the get call in progress / last made
    gres,           \* result of the last get call
    \* ---- rasterizer: history ----
    npushed,        \* number of push_resize calls made
    lastPushed,     \* window size of the latest push_resize call
    everCompleted,  \* some render cycle has covered every page
    latePush,       \* some push_resize was made after a cycle completed
    cbCount,        \* number of times the worker invoked the callback
    pubSinceAdopt,  \* the callback was invoked since the last size adoption
    sentinelRead,   \* the worker has dequeued the stop sentinel
    everSuperseded, \* a size was adopted while the in-progress list held
                    \* images rendered at another size
    pubSet,         \* the list stored by the latest completed images_done
    werr,           \* the exception that ended the worker, or "none"
    alias,          \* the worker's `images` is the list object it handed
                    \* over (and the facade stored)
    \* ---- cursor ----
    nslides,        \* Cursor.nslides
    cursor,         \* Cursor.cursor
    rev,            \* Cursor.rev: [state, stopwatch]
    fwd,            \* Cursor.fwd: [state, stopwatch]
    ret,            \* result of the last Cursor.tick
    fwdFires,       \* result of the last fwd.tick
    fwdT,           \* sum of dt over the fwd.tick calls of the current hold
    run,            \* number of ticks of the current forward-only run
    runStart,       \* cursor value when the current run began
    runFires,       \* fires of the forward timer during the current run
    heldRev,        \* `reverse` argument of the last Cursor.tick
    heldFwd,        \* `forward` argument of the last Cursor.tick
    revFires,       \* result of the last rev.tick
    fwdWas,         \* state of the forward timer before the last fwd.tick
    \* ---- two Repeaters held continuously ----
    pa,             \* [state, stopwatch, t, fires, n]: timer, elapsed time,
    pb              \* cumulative fires and number of ticks

rvars == <<pagelimit, docpages, aspect, queue, wpc, page, image_size, images,
           images2, fimages, black, lock, opc, gidx, gres, npushed, lastPushed,
           everCompleted, latePush, cbCount, pubSinceAdopt, sentinelRead,
           everSuperseded, pubSet, werr, alias>>
pvars == <<pa, pb>>
cvars == <<nslides, cursor, rev, fwd, ret, fwdFires, fwdT, run, runStart,
           runFires, heldRev, heldFwd, revFires, fwdWas>>
vars == <<rvars, cvars, pvars>>

Min(a, b) == IF a < b THEN a ELSE b
Max(a, b) == IF a > b THEN a ELSE b

(***************************************************************************)
(* Bounds of the model.                                                    *)
(***************************************************************************)
MaxPushes == 3
MaxPageLimit == 33
MaxExtraPages == 1
MaxSlides == 5
MaxDt == 10
MaxHold == 12
\* Pair of timers: significant bits of a float, grid of 2^-GridBits s,
\* longest dt and longest hold in sixteenths of a second.
Precision == 13
GridBits == 24
MaxPairDt == 15
MaxPairT == 16

(***************************************************************************)
(* Rasterizer: values.                                                     *)
(***************************************************************************)
CHUNK == 32

NoneItem == <<0, 0>>
NoneList == <<>>
NoImg == [kind |-> "none", sz |-> <<0, 0>>, pg |-> 0]
NoArgs == <<0, 0>>

\* Window sizes the window layer reports (width, height), both positive.
WinSizes == {<<4, 3>>, <<8, 3>>, <<3, 4>>}
\* Page aspect ratios (width, height) of the documents considered.
Aspects == {<<4, 3>>}

\* The image convert_from_path renders for page pg with size=sz.
Img(sz, pg) == [kind |-> "page", sz |-> sz, pg |-> pg]
\* images[0].point(lut) with an all-zero table: a black image of the same
\* dimensions.
Point0(img) == [kind |-> "black", sz |-> img.sz, pg |-> 0]

\* _winsize2rasterargs: None (0 here) for the dimension to be derived.
\* float(width) / height >= aspect, with aspect = a[1] / a[2], all positive.
WinSize2RasterArgs(ws, a) ==
    IF ws[1] * a[2] >= a[1] * ws[2] THEN <<0, ws[2]>> ELSE <<ws[1], 0>>

FreshImages(n) == [i \in 1..n |-> NoImg]

\* Page limits considered: a single page, exactly one chunk, and more than
\* one chunk.
PageLimits == {1, CHUNK} \cup ((CHUNK + 1)..MaxPageLimit)


(***************************************************************************)
(* Rasterizer: pieces of _rasterize_worker and ThreadedRasterizer.get.     *)
(***************************************************************************)
\* Mutant: the page counter is not reset when a size is adopted.
DrainPageKept(p) == p

\* `page = 1` on adopting a dequeued size (line 56).
DrainPage(p) == 1

\* Mutant: the raster arguments are not recomputed for a dequeued size.
DrainSizeStale(ws, a, old) == old

\* `image_size = _winsize2rasterargs(window_size, aspect)` on adopting a
\* dequeued size (line 55); old is the image_size it replaces.
DrainSize(ws, a, old) == WinSize2RasterArgs(ws, a)

\* Mutant: the completion test passes one page early.
AllPagesDoneEarly(p, n) == p >= n

\* The completion test of line 59: page == pagelimit + 1.
AllPagesDone(p, n) == p = n + 1

\* Mutant: the worker goes on with the list it handed over.
AfterPublishImagesKept(imgs, n) == imgs

\* `images = [None] * pagelimit` after handing the full list over (line 63).
AfterPublishImages(imgs, n) == FreshImages(n)

\* Last page convert_from_path returns for first_page=p, last_page=p+CHUNK-1:
\* pdf2image clamps last_page to the document's page count.
ChunkLast(p, dp) == Min(p + CHUNK - 1, dp)

\* The for loop of lines 78-80 over the chunk p..last: the list after the
\* stores that succeed (a store at an index >= pagelimit raises IndexError).
StoreChunk(imgs, n, sz, p, last) ==
    [i \in 1..n |-> IF i >= p /\ i <= last THEN Img(sz, i) ELSE imgs[i]]

\* Mutant: the test of line 61 is left out.
LastIsRenderedAlways(imgs, n) == TRUE

\* The completion test of line 61: images[-1] is not None.
LastIsRendered(imgs, n) == imgs[n] # NoImg

\* Mutant: no lower bound test, so that a negative index counts from the
\* end of the list as Python indexing does.
GetResultNoLowerBound(imgs, blk, idx) ==
    IF imgs = NoneList THEN NoImg
    ELSE IF idx < Len(imgs)
         THEN imgs[IF idx >= 0 THEN idx + 1 ELSE Len(imgs) + idx + 1]
    ELSE blk

\* ThreadedRasterizer.get, the body under the lock (lines 117-121);
\* imgs[idx + 1] is Python's self.images[index].
GetResult(imgs, blk, idx) ==
    IF imgs = NoneList THEN NoImg
    ELSE IF idx >= 0 /\ idx < Len(imgs) THEN imgs[idx + 1]
    ELSE blk

\* The indices get is called with: both edges of the range and just outside.
GetIndices == {-1, 0, pagelimit - 1, pagelimit}

(***************************************************************************)
(* Rasterizer: initial state (after ThreadedRasterizer.__init__ has        *)
(* started the thread and the worker has run lines 36-41).                 *)
(***************************************************************************)
RInit ==
    /\ pagelimit \in PageLimits
    /\ docpages \in pagelimit..(pagelimit + MaxExtraPages)
    /\ aspect \in Aspects
    /\ queue = <<>>
    /\ wpc = "first_get"
    /\ page = 1
    /\ image_size = NoArgs
    /\ images = FreshImages(pagelimit)
    /\ images2 = NoneList
    /\ fimages = NoneList
    /\ black = NoImg
    /\ lock = "free"
    /\ opc = "idle"
    /\ gidx = 0
    /\ gres = NoImg
    /\ npushed = 0
    /\ lastPushed = NoneItem
    /\ everCompleted = FALSE
    /\ latePush = FALSE
    /\ cbCount = 0
    /\ pubSinceAdopt = FALSE
    /\ sentinelRead = FALSE
    /\ everSuperseded = FALSE
    /\ pubSet = NoneList
    /\ werr = "none"
    /\ alias = FALSE

\* The rasterizer state held fixed while the cursor is checked.
RIdle ==
    /\ pagelimit = 1 /\ docpages = 1 /\ aspect = <<1, 1>>
    /\ queue = <<>> /\ wpc = "first_get" /\ page = 1 /\ image_size = NoArgs
    /\ images = FreshImages(1) /\ images2 = NoneList /\ fimages = NoneList
    /\ black = NoImg /\ lock = "free" /\ opc = "idle" /\ gidx = 0
    /\ gres = NoImg /\ npushed = 0 /\ lastPushed = NoneItem
    /\ everCompleted = FALSE /\ latePush = FALSE /\ cbCount = 0
    /\ pubSinceAdopt = FALSE /\ sentinelRead = FALSE
    /\ everSuperseded = FALSE /\ pubSet = NoneList
    /\ werr = "none" /\ alias = FALSE

config == <<pagelimit, docpages, aspect>>
facade == <<fimages, black, lock>>
owner == <<opc, gidx, gres>>
pushes == <<npushed, lastPushed, latePush>>
history == <<everSuperseded, pubSet>>
failure == <<werr, alias>>

(***************************************************************************)
(* Rasterizer: the worker thread.                                          *)
(***************************************************************************)
\* Lines 43-44: block for the first size.  A stop sentinel read here is
\* passed to _winsize2rasterargs, whose tuple unpacking raises TypeError.
FirstGet ==
    /\ wpc = "first_get"
    /\ queue # <<>>
    /\ queue' = Tail(queue)
    /\ IF Head(queue) = NoneItem
       THEN /\ wpc' = "raised"
            /\ werr' = "TypeError"
            /\ sentinelRead' = TRUE
            /\ UNCHANGED image_size
       ELSE /\ wpc' = "drain"
            /\ image_size' = WinSize2RasterArgs(Head(queue), aspect)
            /\ UNCHANGED <<sentinelRead, werr>>
    /\ UNCHANGED <<config, page, images, images2, facade, owner, pushes,
                   everCompleted, cbCount, pubSinceAdopt, history, alias,
                   cvars, pvars>>

\* Lines 52-56: one successful get of the drain loop.
DrainGet ==
    /\ wpc = "drain"
    /\ queue # <<>>
    /\ queue' = Tail(queue)
    /\ IF Head(queue) = NoneItem
       THEN /\ wpc' = "returned"
            /\ sentinelRead' = TRUE
            /\ UNCHANGED <<image_size, page, pubSinceAdopt, everSuperseded>>
       ELSE /\ image_size' = DrainSize(Head(queue), aspect, image_size)
            /\ page' = DrainPage(page)
            /\ pubSinceAdopt' = FALSE
            /\ everSuperseded' =
                   (\/ everSuperseded
                    \/ \E i \in 1..pagelimit :
                          images[i] # NoImg /\ images[i].sz # image_size')
            /\ UNCHANGED <<wpc, sentinelRead>>
    /\ UNCHANGED <<config, images, images2, facade, owner, pushes,
                   everCompleted, cbCount, pubSet, failure,
                   cvars, pvars>>

\* Lines 52, 57-58: the get times out on an empty queue.
DrainEmpty ==
    /\ wpc = "drain"
    /\ queue = <<>>
    /\ wpc' = "check"
    /\ UNCHANGED <<config, queue, page, image_size, images, images2, facade,
                   owner, pushes, everCompleted, cbCount, pubSinceAdopt,
                   sentinelRead, history, failure,
                   cvars, pvars>>

\* Lines 59-64: every page is done and the list is full: hand it over.
\* Line 63 binds `images` to a new list, so the list handed over is no
\* longer the one the worker writes to; alias records whether that is so.
Publish ==
    /\ wpc = "check"
    /\ AllPagesDone(page, pagelimit)
    /\ LastIsRendered(images, pagelimit)
    /\ images2' = images
    /\ images' = AfterPublishImages(images, pagelimit)
    /\ alias' = (images' = images2')
    /\ cbCount' = cbCount + 1
    /\ pubSinceAdopt' = TRUE
    /\ wpc' = "cb_store"
    /\ UNCHANGED <<config, queue, page, image_size, facade, owner, pushes,
                   everCompleted, sentinelRead, history, werr, cvars, pvars>>

\* Lines 59-61, 65-67: already handed over, nothing to do.
IdlePass ==
    /\ wpc = "check"
    /\ AllPagesDone(page, pagelimit)
    /\ ~LastIsRendered(images, pagelimit)
    /\ wpc' = "drain"
    /\ UNCHANGED <<config, queue, page, image_size, images, images2, facade,
                   owner, pushes, everCompleted, cbCount, pubSinceAdopt,
                   sentinelRead, history, failure,
                   cvars, pvars>>

\* Lines 68-80: render one chunk and store its images.
Render ==
    /\ wpc = "check"
    /\ ~AllPagesDone(page, pagelimit)
    /\ LET last == ChunkLast(page, docpages)
           fits == last <= pagelimit
       IN /\ images' = StoreChunk(images, pagelimit, image_size, page, last)
          /\ page' = IF last < page THEN page
                     ELSE IF fits THEN last + 1 ELSE pagelimit + 1
          /\ wpc' = IF fits THEN "drain" ELSE "raised"
          /\ werr' = IF fits THEN werr ELSE "IndexError"
          /\ everCompleted' = (everCompleted \/ page' = pagelimit + 1)
          /\ IF alias
             THEN images2' = images' /\ fimages' = images'
             ELSE UNCHANGED <<images2, fimages>>
    /\ UNCHANGED <<config, queue, image_size, black, lock, owner, pushes,
                   cbCount, pubSinceAdopt, sentinelRead, history, alias,
                   cvars, pvars>>

\* Mutant: a failed decode call is replaced by blank pages and the cycle
\* goes on.
RenderFailBlank ==
    /\ wpc = "check"
    /\ ~AllPagesDone(page, pagelimit)
    /\ LET last == Min(ChunkLast(page, docpages), pagelimit)
       IN /\ images' = [i \in 1..pagelimit |->
                           IF i >= page /\ i <= last
                           THEN [kind |-> "blank", sz |-> image_size, pg |-> i]
                           ELSE images[i]]
          /\ page' = last + 1
    /\ wpc' = "drain"
    /\ werr' = "decode"
    /\ UNCHANGED <<config, queue, image_size, images2, facade, owner, pushes,
                   everCompleted, cbCount, pubSinceAdopt, sentinelRead,
                   history, alias, cvars, pvars>>

\* Lines 71-77: convert_from_path raises; nothing catches it, so the worker
\* thread ends with nothing stored from the chunk.
RenderFail ==
    /\ wpc = "check"
    /\ ~AllPagesDone(page, pagelimit)
    /\ wpc' = "raised"
    /\ werr' = "decode"
    /\ UNCHANGED <<config, queue, page, image_size, images, images2, facade,
                   owner, pushes, everCompleted, cbCount, pubSinceAdopt,
                   sentinelRead, history, alias, cvars, pvars>>

\* Mutant: the list is stored without taking the lock.
ImagesDoneStoreUnlocked ==
    /\ wpc = "cb_store"
    /\ fimages' = images2
    /\ wpc' = "cb_black"
    /\ UNCHANGED <<config, queue, page, image_size, images, images2, black,
                   lock, owner, pushes, everCompleted, cbCount, pubSinceAdopt,
                   sentinelRead, history, failure, cvars, pvars>>

\* images_done, lines 107-108: take the lock, store the list.
ImagesDoneStore ==
    /\ wpc = "cb_store"
    /\ lock = "free"
    /\ lock' = "worker"
    /\ fimages' = images2
    /\ wpc' = "cb_black"
    /\ UNCHANGED <<config, queue, page, image_size, images, images2, black,
                   owner, pushes, everCompleted, cbCount, pubSinceAdopt,
                   sentinelRead, history, failure,
                   cvars, pvars>>

\* images_done, lines 109-110: derive the black image, release the lock,
\* return to the worker loop.
ImagesDoneBlack ==
    /\ wpc = "cb_black"
    /\ black' = Point0(fimages[1])
    /\ lock' = "free"
    /\ wpc' = "drain"
    /\ pubSet' = images2
    /\ UNCHANGED <<config, queue, page, image_size, images, images2, fimages,
                   owner, pushes, everCompleted, cbCount, pubSinceAdopt,
                   sentinelRead, everSuperseded, failure,
                   cvars, pvars>>

(***************************************************************************)
(* Rasterizer: the owning thread.                                          *)
(***************************************************************************)
\* push_resize (lines 112-113); it may also be called after shutdown.
PushResize(ws) ==
    /\ opc \in {"idle", "stopped"}
    /\ npushed < MaxPushes
    /\ queue' = Append(queue, ws)
    /\ npushed' = npushed + 1
    /\ lastPushed' = ws
    /\ latePush' = (latePush \/ everCompleted)
    /\ UNCHANGED <<config, wpc, page, image_size, images, images2, facade,
                   owner, everCompleted, cbCount, pubSinceAdopt, sentinelRead,
                   history, failure,
                   cvars, pvars>>

\* get, line 116: take the lock.
GetAcquire(idx) ==
    /\ opc \in {"idle", "stopped"}
    /\ lock = "free"
    /\ lock' = "owner"
    /\ gidx' = idx
    /\ opc' = IF opc = "idle" THEN "get" ELSE "get_stopped"
    /\ UNCHANGED <<config, queue, wpc, page, image_size, images, images2,
                   fimages, black, gres, pushes, everCompleted, cbCount,
                   pubSinceAdopt, sentinelRead, history, failure,
                   cvars, pvars>>

\* get, lines 117-121: read under the lock, release it, return.
GetRead ==
    /\ opc \in {"get", "get_stopped"}
    /\ gres' = GetResult(fimages, black, gidx)
    /\ lock' = "free"
    /\ opc' = IF opc = "get" THEN "idle" ELSE "stopped"
    /\ UNCHANGED <<config, queue, wpc, page, image_size, images, images2,
                   fimages, black, gidx, pushes, everCompleted, cbCount,
                   pubSinceAdopt, sentinelRead, history, failure,
                   cvars, pvars>>

\* shutdown, line 124: enqueue the stop sentinel.
Shutdown ==
    /\ opc = "idle"
    /\ queue' = Append(queue, NoneItem)
    /\ opc' = "joining"
    /\ UNCHANGED <<config, wpc, page, image_size, images, images2, facade,
                   gidx, gres, pushes, everCompleted, cbCount, pubSinceAdopt,
                   sentinelRead, history, failure,
                   cvars, pvars>>

\* Mutant: shutdown returns without waiting for the worker thread.
JoinNoWait ==
    /\ opc = "joining"
    /\ opc' = "stopped"
    /\ UNCHANGED <<config, queue, wpc, page, image_size, images, images2,
                   facade, gidx, gres, pushes, everCompleted, cbCount,
                   pubSinceAdopt, sentinelRead, history, failure, cvars,
                   pvars>>

\* shutdown, line 125: join returns once the worker thread has ended.
Join ==
    /\ opc = "joining"
    /\ wpc \in {"returned", "raised"}
    /\ opc' = "stopped"
    /\ UNCHANGED <<config, queue, wpc, page, image_size, images, images2,
                   facade, gidx, gres, pushes, everCompleted, cbCount,
                   pubSinceAdopt, sentinelRead, history, failure,
                   cvars, pvars>>

Worker ==
    \/ FirstGet
    \/ DrainGet
    \/ DrainEmpty
    \/ Publish
    \/ IdlePass
    \/ Render
    \/ RenderFail
    \/ ImagesDoneStore
    \/ ImagesDoneBlack

Owner ==
    \/ \E ws \in WinSizes : PushResize(ws)
    \/ \E idx \in GetIndices : GetAcquire(idx)
    \/ GetRead
    \/ Shutdown
    \/ Join

Next == Worker \/ Owner

(***************************************************************************)
(* Cursor: Repeater and Cursor of pdfpc.py.                                *)
(***************************************************************************)
\* REPEAT_TRIGGER = 0.4 s and REPEAT_INTERVAL = 0.1 s, in units of 0.05 s.
REPEAT_TRIGGER == 8
REPEAT_INTERVAL == 2

UP == 0
HOLD == 1
FIRE == 2

\* Repeater.__init__'s stopwatch (the source's -1000000000000, cut to fit the
\* model checker's integers; no tick reads it).
StopwatchInit == -1000000000

NewRepeater == [state |-> UP, stopwatch |-> StopwatchInit]

\* Mutant: the trigger needs more than REPEAT_TRIGGER.
TriggerPendingInclusive(sw) == sw <= REPEAT_TRIGGER

\* The test of line 61: the trigger has not been reached.
TriggerPending(sw) == sw < REPEAT_TRIGGER

\* Mutant: an interval that is exactly used up fires too.
IntervalLeftInclusive(sw) == sw >= REPEAT_INTERVAL

\* The loop test of line 73.
IntervalLeft(sw) == sw > REPEAT_INTERVAL

\* Repeater._countdown: [fires, stopwatch] after the loop of lines 72-76.
RECURSIVE Countdown(_, _)
Countdown(sw, fires) ==
    IF IntervalLeft(sw)
    THEN Countdown(sw - REPEAT_INTERVAL, fires + 1)
    ELSE [fires |-> fires, stopwatch |-> sw]

\* Mutant: a release is noticed only after the repeats have been counted.
RepeaterTickLateRelease(r, dt, is_down) ==
    IF r.state = FIRE
    THEN LET c == Countdown(r.stopwatch + dt, 0)
         IN [state |-> IF is_down THEN FIRE ELSE UP,
             stopwatch |-> c.stopwatch, fires |-> c.fires]
    ELSE IF ~is_down
    THEN [state |-> UP, stopwatch |-> r.stopwatch, fires |-> 0]
    ELSE IF r.state = UP
    THEN [state |-> HOLD, stopwatch |-> dt, fires |-> 1]
    ELSE IF TriggerPending(r.stopwatch + dt)
         THEN [state |-> HOLD, stopwatch |-> r.stopwatch + dt, fires |-> 0]
         ELSE LET c == Countdown(r.stopwatch + dt - REPEAT_TRIGGER, 0)
              IN [state |-> FIRE, stopwatch |-> c.stopwatch,
                  fires |-> 1 + c.fires]

\* Mutant: a press starts the stopwatch at zero.
RepeaterTickPressZero(r, dt, is_down) ==
    IF ~is_down
    THEN [state |-> UP, stopwatch |-> r.stopwatch, fires |-> 0]
    ELSE IF r.state = UP
    THEN [state |-> HOLD, stopwatch |-> 0, fires |-> 1]
    ELSE IF r.state = HOLD
    THEN IF TriggerPending(r.stopwatch + dt)
         THEN [state |-> HOLD, stopwatch |-> r.stopwatch + dt, fires |-> 0]
         ELSE LET c == Countdown(r.stopwatch + dt - REPEAT_TRIGGER, 0)
              IN [state |-> FIRE, stopwatch |-> c.stopwatch,
                  fires |-> 1 + c.fires]
    ELSE LET c == Countdown(r.stopwatch + dt, 0)
         IN [state |-> FIRE, stopwatch |-> c.stopwatch, fires |-> c.fires]

\* Repeater.tick on the timer r: the timer after the call and the result.
RepeaterTick(r, dt, is_down) ==
    IF ~is_down
    THEN [state |-> UP, stopwatch |-> r.stopwatch, fires |-> 0]
    ELSE IF r.state = UP
    THEN [state |-> HOLD, stopwatch |-> dt, fires |-> 1]
    ELSE IF r.state = HOLD
    THEN IF TriggerPending(r.stopwatch + dt)
         THEN [state |-> HOLD, stopwatch |-> r.stopwatch + dt, fires |-> 0]
         ELSE LET c == Countdown(r.stopwatch + dt - REPEAT_TRIGGER, 0)
              IN [state |-> FIRE, stopwatch |-> c.stopwatch,
                  fires |-> 1 + c.fires]
    ELSE LET c == Countdown(r.stopwatch + dt, 0)
         IN [state |-> FIRE, stopwatch |-> c.stopwatch, fires |-> c.fires]

TimerOf(t) == [state |-> t.state, stopwatch |-> t.stopwatch]

\* Mutant: the upper clamp is nslides.
ClampHiLoose(n) == n

\* The upper bound of line 95.
ClampHi(n) == n - 1

\* Lines 95-96.
Clamp(c, n) == Max(Min(c, ClampHi(n)), 0)

\* Mutant: the result compares the value before clamping.
ChangedUnclamped(moved, clamped, old) == moved # old

\* The result of line 97, for the value moved to by lines 93-94, the value
\* clamped by lines 95-96 and old_value.
Changed(moved, clamped, old) == clamped # old

\* Cursor.__init__ (lines 81-85).
CInit ==
    /\ nslides \in 1..MaxSlides
    /\ cursor = 0
    /\ rev = NewRepeater
    /\ fwd = NewRepeater
    /\ ret = FALSE
    /\ fwdFires = 0
    /\ fwdT = 0
    /\ run = 0
    /\ runStart = 0
    /\ runFires = 0
    /\ heldRev = FALSE
    /\ heldFwd = FALSE
    /\ revFires = 0
    /\ fwdWas = UP

\* Mutant: with both controls held the timers keep ticking and only the
\* movement is suppressed.
TickBothAdvance(dt) ==
    /\ ret' = FALSE
    /\ run' = 0
    /\ runStart' = 0
    /\ runFires' = 0
    /\ heldRev' = TRUE
    /\ heldFwd' = TRUE
    /\ rev' = TimerOf(RepeaterTick(rev, dt, TRUE))
    /\ fwd' = TimerOf(RepeaterTick(fwd, dt, TRUE))
    /\ UNCHANGED <<nslides, cursor, fwdFires, fwdT, revFires, fwdWas, rvars,
                   pvars>>

\* Cursor.tick (lines 87-97) with both controls held: nothing but the
\* result.
TickBoth(dt) ==
    /\ ret' = FALSE
    /\ run' = 0
    /\ runStart' = 0
    /\ runFires' = 0
    /\ heldRev' = TRUE
    /\ heldFwd' = TRUE
    /\ UNCHANGED <<nslides, cursor, rev, fwd, fwdFires, fwdT, revFires,
                   fwdWas, rvars, pvars>>

\* Cursor.tick (lines 87-97) with at most one control held.  A run is a
\* sequence of consecutive ticks of 0.05 s with only forward held, begun
\* with both timers released.
TickOne(dt, reverse, forward) ==
    /\ ~(reverse /\ forward)
    /\ (forward /\ fwd.state # UP) => fwdT + dt <= MaxHold
    /\ LET r == RepeaterTick(rev, dt, reverse)
           f == RepeaterTick(fwd, dt, forward)
           c == Clamp(cursor - r.fires + f.fires, nslides)
           inRun == dt = 1 /\ forward
           starts == inRun /\ run = 0 /\ rev.state = UP /\ fwd.state = UP
           goesOn == inRun /\ run > 0
       IN /\ rev' = TimerOf(r)
          /\ fwd' = TimerOf(f)
          /\ cursor' = c
          /\ ret' = Changed(cursor - r.fires + f.fires, c, cursor)
          /\ fwdFires' = f.fires
          /\ revFires' = r.fires
          /\ fwdWas' = fwd.state
          /\ heldRev' = reverse
          /\ heldFwd' = forward
          /\ fwdT' = IF ~forward THEN 0
                     ELSE IF fwd.state = UP THEN dt ELSE fwdT + dt
          /\ run' = IF starts THEN 1 ELSE IF goesOn THEN run + 1 ELSE 0
          /\ runStart' = IF starts THEN cursor
                         ELSE IF goesOn THEN runStart ELSE 0
          /\ runFires' = IF starts THEN f.fires
                         ELSE IF goesOn THEN runFires + f.fires ELSE 0
    /\ UNCHANGED <<nslides, rvars, pvars>>

CursorTick(dt, reverse, forward) ==
    IF reverse /\ forward THEN TickBoth(dt) ELSE TickOne(dt, reverse, forward)

CNext == \E dt \in 1..MaxDt, reverse, forward \in BOOLEAN :
             CursorTick(dt, reverse, forward)

(***************************************************************************)
(* Two Repeaters held continuously, in floating point.                     *)
(***************************************************************************)
\* One second, in grid units.
Unit == 2 ^ GridBits

RECURSIVE BitLen(_)
BitLen(x) == IF x = 0 THEN 0 ELSE 1 + BitLen(x \div 2)

\* The float nearest to x >= 0 (round to nearest, ties to even).
Fl(x) ==
    LET s == BitLen(x) - Precision
    IN IF s <= 0 THEN x
       ELSE LET m == 2 ^ s
                q == x \div m
                r == x % m
                h == m \div 2
                up == r > h \/ (r = h /\ q % 2 = 1)
            IN (q + IF up THEN 1 ELSE 0) * m

\* The floats written 0.4 and 0.1 (lines 16-17).
REPEAT_TRIGGER_fl == Fl((2 * Unit) \div 5)
REPEAT_INTERVAL_fl == Fl(Unit \div 10)

\* Repeater._countdown (lines 71-76) on floats.
RECURSIVE CountdownFl(_, _)
CountdownFl(sw, n) ==
    IF sw > REPEAT_INTERVAL_fl
    THEN CountdownFl(Fl(sw - REPEAT_INTERVAL_fl), n + 1)
    ELSE [stopwatch |-> sw, fires |-> n]

\* Repeater.tick (lines 41-69) on floats.
RepeaterTickFl(r, dt, is_down) ==
    IF ~is_down
    THEN [state |-> UP, stopwatch |-> r.stopwatch, fires |-> 0]
    ELSE IF r.state = UP
    THEN [state |-> HOLD, stopwatch |-> dt, fires |-> 1]
    ELSE IF r.state = HOLD
    THEN LET sw == Fl(r.stopwatch + dt)
         IN IF sw < REPEAT_TRIGGER_fl
            THEN [state |-> HOLD, stopwatch |-> sw, fires |-> 0]
            ELSE LET c == CountdownFl(Fl(sw - REPEAT_TRIGGER_fl), 0)
                 IN [state |-> FIRE, stopwatch |-> c.stopwatch,
                     fires |-> 1 + c.fires]
    ELSE LET c == CountdownFl(Fl(r.stopwatch + dt), 0)
         IN [state |-> FIRE, stopwatch |-> c.stopwatch, fires |-> c.fires]

\* The dt values fed to the pair: multiples of 1/16 s, exact in binary.
Sixteenth == Unit \div 16
PairDts == {k * Sixteenth : k \in 1..MaxPairDt}

\* One held tick of a timer of the pair: t is the exact sum of the dt fed
\* so far, fires the sum of the results, n the number of ticks (up to 2).
PairTick(p, dt) ==
    LET r == RepeaterTickFl(p, dt, TRUE)
    IN [state |-> r.state, stopwatch |-> r.stopwatch, t |-> p.t + dt,
        fires |-> p.fires + r.fires, n |-> Min(p.n + 1, 2)]

\* Repeater.__init__ (lines 36-39), twice.
PInit ==
    /\ pa = [state |-> UP, stopwatch |-> StopwatchInit, t |-> 0, fires |-> 0,
             n |-> 0]
    /\ pb = pa

TickA(dt) ==
    /\ pa.t + dt <= MaxPairT * Sixteenth
    /\ pa' = PairTick(pa, dt)
    /\ UNCHANGED <<pb, rvars, cvars>>

TickB(dt) ==
    /\ pb.t + dt <= MaxPairT * Sixteenth
    /\ pb' = PairTick(pb, dt)
    /\ UNCHANGED <<pa, rvars, cvars>>

PNext == \E dt \in PairDts : TickA(dt) \/ TickB(dt)

\* The pair of timers held fixed while the rest is checked.
PFrozen ==
    /\ pa = [state |-> UP, stopwatch |-> StopwatchInit, t |-> 0, fires |-> 0,
             n |-> 0]
    /\ pb = pa

CursorInit == CInit /\ RIdle /\ PFrozen

CursorSpec == CursorInit /\ [][CNext]_vars

\* The cursor state held fixed while the rasterizer is checked.
CFrozen ==
    /\ nslides = 1 /\ cursor = 0
    /\ rev = NewRepeater /\ fwd = NewRepeater
    /\ ret = FALSE /\ fwdFires = 0 /\ fwdT = 0
    /\ run = 0 /\ runStart = 0 /\ runFires = 0
    /\ heldRev = FALSE /\ heldFwd = FALSE /\ revFires = 0 /\ fwdWas = UP

Init == RInit /\ CFrozen /\ PFrozen

\* The rasterizer on a document of exactly pagelimit pages (less than a
\* chunk, exactly one chunk, more than one chunk), with a worker thread that
\* keeps running, a lock that is granted to a thread that keeps asking for
\* it, and get calls that return.
LiveInit ==
    /\ Init
    /\ docpages = pagelimit
    /\ pagelimit \in {1, CHUNK, MaxPageLimit}
LiveSpec ==
    /\ LiveInit
    /\ [][Next]_vars
    /\ WF_vars(Worker)
    /\ SF_vars(ImagesDoneStore)
    /\ WF_vars(GetRead)

PairInit == PInit /\ RIdle /\ CFrozen
PairSpec == PairInit /\ [][PNext]_vars

Spec == Init /\ [][Next]_vars


(***************************************************************************)
(* Rasterizer: properties.                                                 *)
(***************************************************************************)
RasterArgsOf(ws) == WinSize2RasterArgs(ws, aspect)

\* The worker sits in its loop with every page done and the list handed over.
WorkerIdle ==
    /\ wpc \in {"drain", "check"}
    /\ page = pagelimit + 1
    /\ ~LastIsRendered(images, pagelimit)

\* C1 (latest-size-wins): while every push_resize so far was made before any
\* render cycle had covered every page, the worker has invoked the callback
\* at most once, the list it passed consists of the images of all pages
\* rendered at the latest pushed size, and once the worker idles it has
\* invoked the callback exactly once.
C1_LatestSizeWins ==
    (npushed >= 1 /\ ~latePush) =>
        /\ cbCount <= 1
        /\ cbCount = 1 =>
              \A i \in 1..pagelimit :
                  images2[i] = Img(RasterArgsOf(lastPushed), i)
        /\ WorkerIdle => cbCount = 1

C1_Witness ==
    /\ npushed = 3
    /\ ~latePush
    /\ everSuperseded
    /\ cbCount = 1
    /\ WorkerIdle

\* C2 (single-size consistency): the list being handed to the callback, and
\* the list readable through get, hold only images rendered at one size; for
\* the list being handed over that size is the worker's current image_size.
C2_SingleSize ==
    /\ wpc \in {"cb_store", "cb_black"} =>
          \A i \in 1..pagelimit : images2[i].sz = image_size
    /\ fimages # NoneList =>
          \A i, j \in 1..Len(fimages) : fimages[i].sz = fimages[j].sz

C2_Witness ==
    /\ wpc = "cb_store"
    /\ everSuperseded
    /\ pagelimit > CHUNK
    /\ cbCount >= 2

\* C3 (completeness): every list passed to the callback, and every list
\* stored in the facade, has exactly pagelimit entries, none of them None.
C3_Complete ==
    /\ cbCount > 0 =>
          /\ Len(images2) = pagelimit
          /\ \A i \in 1..pagelimit : images2[i] # NoImg
    /\ fimages # NoneList =>
          /\ Len(fimages) = pagelimit
          /\ \A i \in 1..pagelimit : fimages[i] # NoImg

C3_Witness ==
    /\ wpc = "cb_black"
    /\ everSuperseded
    /\ cbCount >= 2
    /\ Len(fimages) = pagelimit

\* C4 (exactly-once publish): once the callback has been invoked for the
\* adopted size, no step invokes it again or renders until a size is
\* dequeued; and the worker takes the nothing-to-do branch only after it has
\* invoked the callback for the adopted size.
C4_ExactlyOnce ==
    [][/\ pubSinceAdopt => (cbCount' = cbCount /\ ~Render)
       /\ IdlePass => pubSinceAdopt]_vars

C4_Witness ==
    /\ pubSinceAdopt
    /\ wpc = "check"
    /\ WorkerIdle
    /\ cbCount = 2

\* C5 (shutdown exit): once the worker has read the stop sentinel it has
\* returned normally.
C5_SentinelExitsNormally ==
    sentinelRead => wpc = "returned"

\* The image get(idx) is to return: None before any list has been stored by
\* a completed images_done, else the entry of the latest such list, or the
\* black image derived from its first entry for an index out of range.
ExpectedGet(idx) ==
    IF pubSet = NoneList THEN NoImg
    ELSE IF idx \in 0..(pagelimit - 1) THEN pubSet[idx + 1]
    ELSE [kind |-> "black", sz |-> pubSet[1].sz, pg |-> 0]

\* C6 (facade get result): every get returns ExpectedGet of its index.
C6_GetResult ==
    [][GetRead => gres' = ExpectedGet(gidx)]_vars

C6_Witness ==
    /\ opc = "idle"
    /\ pubSet # NoneList
    /\ gidx = -1
    /\ gres.kind = "black"

(***************************************************************************)
(* Cursor: properties.                                                     *)
(***************************************************************************)
\* C7 (cursor clamping): the cursor is within [0, nslides - 1].
C7_CursorInBounds ==
    cursor \in 0..(nslides - 1)

C7_Witness ==
    /\ nslides = 1
    /\ cursor = 0
    /\ fwd.state = FIRE
    /\ fwdFires >= 2

\* A step in which fwd.tick(dt, TRUE) was called on a timer in HOLD.
FwdHoldTick == fwd.state = HOLD /\ fwdT' > fwdT

\* C8 (catch-up fire count): the tick that passes the trigger, with T the
\* time held so far, returns floor((T - 0.4) / 0.1) + 1.
C8_CatchUpCount ==
    [][(FwdHoldTick /\ fwd'.state = FIRE) =>
          fwdFires' = ((fwdT' - REPEAT_TRIGGER) \div REPEAT_INTERVAL) + 1]_vars

C10_Scenario ==
    (nslides = 5 /\ runStart = 2) =>
        /\ run = 10 => (cursor = 4 /\ runFires = 2)
        /\ run > 10 => (cursor = 4 /\ ~ret)

C10_Witness ==
    /\ nslides = 5
    /\ runStart = 2
    /\ run = 12
    /\ runFires = 3
    /\ cursor = 4

\* C11 (both-held neutrality): a Cursor.tick with reverse and forward both
\* held returns false and leaves the cursor and the state and stopwatch of
\* both timers unchanged.
C11_BothHeldNeutral ==
    [][(heldRev' /\ heldFwd') =>
          /\ ret' = FALSE
          /\ cursor' = cursor
          /\ rev' = rev
          /\ fwd' = fwd]_vars

C11_Witness ==
    /\ heldRev /\ heldFwd
    /\ fwd.state = FIRE
    /\ rev.state = UP
    /\ ret = FALSE
    /\ cursor = 2

\* C12 (release silence): after a tick call with held = false a timer is
\* Released and the call has returned 0.
C12_ReleaseSilence ==
    ~(heldRev /\ heldFwd) =>
        /\ ~heldFwd => (fwd.state = UP /\ fwdFires = 0)
        /\ ~heldRev => (rev.state = UP /\ revFires = 0)

\* The forward timer was released while Repeating with a stopwatch that any
\* further held time would have pushed over the repeat interval.
C12_Witness ==
    /\ ~heldFwd /\ ~heldRev
    /\ fwdWas = FIRE
    /\ fwd.stopwatch = REPEAT_INTERVAL
    /\ fwd.state = UP
    /\ fwdFires = 0

\* C13 (press fire): a tick call with held = true on a Released timer
\* returns exactly 1, moves the timer to Holding and sets the stopwatch to dt
\* (fwdT is dt on the press tick).
C13_PressFire ==
    (heldFwd /\ ~heldRev /\ fwdWas = UP) =>
        /\ fwdFires = 1
        /\ fwd.state = HOLD
        /\ fwd.stopwatch = fwdT

\* A press with dt >= 0.4 s on a timer that was held before (the cursor had
\* been moved to 1 by an earlier press).
C13_Witness ==
    /\ heldFwd /\ ~heldRev /\ fwdWas = UP
    /\ fwdT >= REPEAT_TRIGGER + REPEAT_INTERVAL
    /\ fwdFires = 1
    /\ nslides = 3
    /\ cursor = 2

\* C19 (changed signal): a Cursor.tick without both controls held sets the
\* cursor to (old - reverse fires + forward fires) clamped into
\* [0, nslides - 1] and returns true exactly when the cursor differs from
\* its value before the call.
C19_ChangedSignal ==
    [][~(heldRev' /\ heldFwd') =>
          LET moved == cursor - revFires' + fwdFires'
              clamped == IF moved < 0 THEN 0
                         ELSE IF moved > nslides - 1 THEN nslides - 1
                         ELSE moved
          IN /\ cursor' = clamped
             /\ ret' = (cursor' # cursor)]_vars

\* A forward fire at the last slide: the cursor stays and the call returns
\* false.
C19_Witness ==
    /\ heldFwd /\ ~heldRev
    /\ fwdFires >= 1
    /\ cursor = nslides - 1
    /\ nslides >= 2
    /\ ret = FALSE

\* C14 (failure keeps last good set): after a decode call has failed the
\* callback is not invoked again, the stored list and black image stay as
\* they are, and every get returns the image or black image of the last
\* published list (None if there is none).
C14_FailureKeepsLastGood ==
    [][(werr = "decode") =>
          (/\ cbCount' = cbCount
           /\ pubSet' = pubSet
           /\ fimages' = fimages
           /\ black' = black
           /\ (GetRead => gres' = ExpectedGet(gidx)))]_vars

\* A get in progress after a decode failure in a cycle that follows a
\* published one.
C14_Witness ==
    /\ werr = "decode"
    /\ wpc = "raised"
    /\ pubSet # NoneList
    /\ \E i \in 1..pagelimit : images[i] # NoImg
    /\ opc = "get"

\* C15 (push after shutdown is a no-op): once shutdown has returned, no step
\* (push_resize calls included) moves the worker, renders, invokes the
\* callback or changes the stored list and black image, and every get
\* returns what the last published list gives.
C15_PushAfterShutdown ==
    [][(opc \in {"stopped", "get_stopped"}) =>
          (/\ wpc' = wpc
           /\ page' = page
           /\ images' = images
           /\ cbCount' = cbCount
           /\ fimages' = fimages
           /\ black' = black
           /\ (GetRead => gres' = ExpectedGet(gidx)))]_vars

\* Two push_resize calls made after shutdown returned, with a published list
\* in the facade.
C15_Witness ==
    /\ opc = "stopped"
    /\ wpc = "returned"
    /\ Len(queue) >= 2
    /\ pubSet # NoneList

\* C17 (page limit respected): the next-page index stays within
\* 1..pagelimit + 1 and the worker never attempts a store outside the list
\* (which ends it with IndexError before the completion test).
C17_PageLimitRespected ==
    /\ page \in 1..(pagelimit + 1)
    /\ werr # "IndexError"

\* C18 (atomic snapshot swap): whenever the lock is free the stored list is
\* absent exactly when the black image is, the black image is the one
\* derived from the first stored image, and the stored list is the list
\* that was published, unmodified by later rendering.
C18_AtomicSnapshot ==
    lock = "free" =>
        /\ (fimages = NoneList) <=> (black = NoImg)
        /\ fimages # NoneList =>
              /\ black = [kind |-> "black", sz |-> fimages[1].sz, pg |-> 0]
              /\ fimages = pubSet
              /\ \A i \in 1..pagelimit : fimages[i] = Img(fimages[1].sz, i)

\* After a second publish the worker has rendered pages at another size
\* into its own list while the stored list is intact.
C18_Witness ==
    /\ lock = "free"
    /\ cbCount >= 2
    /\ fimages # NoneList
    /\ \E i \in 1..pagelimit :
          images[i] # NoImg /\ images[i].sz # fimages[1].sz

\* C20 (tick-partition independence): two timers held continuously, each
\* for at least two ticks and for the same total time, have returned the
\* same total number of fires.
C20_PartitionIndependence ==
    (pa.n >= 2 /\ pb.n >= 2 /\ pa.t = pb.t) => pa.fires = pb.fires

\* The cases C16 does not speak of: nothing pushed yet, a document that is
\* not of exactly pagelimit pages, a failed worker, a stop sentinel enqueued.
C16_Excluded ==
    \/ npushed = 0
    \/ docpages # pagelimit
    \/ werr # "none"
    \/ opc \notin {"idle", "get"}

\* The callback has been invoked and the list it was last given holds every
\* page rendered at the last pushed size.
C16_Published ==
    /\ cbCount > 0
    /\ \A i \in 1..pagelimit :
          images2[i] = Img(RasterArgsOf(lastPushed), i)

\* C16 (eventual publish of the latest size): on a document of exactly
\* pagelimit pages with decode calls that succeed and no stop sentinel, once
\* the pushes stop the worker eventually invokes the callback with the list
\* of all pages rendered at the last pushed size (and that list stays the
\* latest one published).
C16_EventualPublish == <>[](C16_Excluded \/ C16_Published)

\* The last pushed size is published after an earlier publish and an
\* interrupted cycle.
C16_Witness ==
    /\ ~C16_Excluded
    /\ C16_Published
    /\ cbCount >= 2
    /\ everSuperseded
    /\ npushed = MaxPushes
    /\ pagelimit > CHUNK

====
